---- MODULE Spec2Model ----
(***************************************************************************)
(* A model of kernel-sync's SeqLock (src/src/seqlock.rs): a sequence       *)
(* counter `seq`, a SpinLock around the payload, the retrying read(), the  *)
(* single-pass try_read(), the Debug formatter built on try_read(), the    *)
(* write() / SeqLockGuard::drop pair, into_inner(), and the repository's   *)
(* test program; and of its RecycleAllocator (src/src/id.rs).              *)
(*                                                                         *)
(* Granularity: one step per access to shared memory (a load or store of   *)
(* `seq`, of the spinlock word, or of one word of the payload).  Purely    *)
(* local work (the parity test of `start`, the fences, building the guard  *)
(* struct) is folded into the shared access that precedes it.  The racy    *)
(* loads of `seq` and of the payload words by readers return the value     *)
(* the word holds at that step, i.e. either side of a concurrent store.    *)
(* The payload is a composite of NParts words; a writer's `*guard += 1`    *)
(* stores the new generation into the words one at a time, and a reader's  *)
(* closure copies the words one at a time.                                 *)
(***************************************************************************)
EXTENDS Naturals, Sequences, FiniteSets

\* Bounds of the model.
NThreads == 2
NParts == 2
MaxCalls == 3
\* `seq` is a usize: the model keeps SeqBits bits of it.
SeqBits == 4
SeqMod == 2 ^ SeqBits

Threads == 1 .. NThreads
Parts == 1 .. NParts
NoThread == 0

VARIABLES
    seq,      \* SeqLock::seq
    lock,     \* SeqLock::lock, the spinlock word: its holder, or NoThread
    payload,  \* the data inside the SpinLock, word by word
    hist,     \* ghost: the payload at construction and after each guard release
    pc,       \* each thread's position in its current call
    op,       \* each thread's current (or last) call
    guard,    \* guard[t]: thread t owns a live SeqLockGuard
    wval,     \* `*guard += 1`: the sum the guard's owner has computed, 0 before
    widx,     \* words of the payload the guard's owner has stored so far
    start,    \* read / try_read: the local `start`
    ret,      \* read / try_read: the words the closure has copied so far
    h0,       \* ghost: Len(hist) when the call was issued
    odd0,     \* ghost: the call was issued while seq was odd
    out,      \* the call's result tag
    ncalls,   \* ghost: calls issued so far, by all threads
    stage,    \* position in the test program of src/tests/seqlock.rs
    current,  \* RecycleAllocator::current
    recycled, \* RecycleAllocator::recycled
    allocated,\* ghost: the ids handed out by alloc and not given back since
    got,      \* the id returned by the last call, if it was an alloc
    misused,  \* ghost: dealloc has been called with an id that was not allocated
    unique    \* ghost: no alloc has returned an id that was still allocated

vars == <<seq, lock, payload, hist, pc, op, guard, wval, widx, start, ret, h0, odd0, out, ncalls, stage,
          current, recycled, allocated, got, misused, unique>>
\* The lock and the write side.
shared == <<seq, lock, payload, hist, guard, wval, widx>>
\* The RecycleAllocator, and the SeqLock with its threads.
ra == <<current, recycled, allocated, got, misused, unique>>
sl == <<seq, lock, payload, hist, pc, op, guard, wval, widx, start, ret, h0, odd0, out, ncalls, stage>>

Odd(n) == n % 2 = 1

\* RecycleAllocator::new(current)
NewAllocator(c) ==
    /\ current = c
    /\ recycled = << >>
    /\ allocated = {}
    /\ got = << >>
    /\ misused = FALSE
    /\ unique = TRUE

\* SeqLock::new(0)
Init ==
    /\ seq = 0
    /\ lock = NoThread
    /\ payload = [i \in Parts |-> 0]
    /\ hist = << [i \in Parts |-> 0] >>
    /\ pc = [t \in Threads |-> "idle"]
    /\ op = [t \in Threads |-> "none"]
    /\ guard = [t \in Threads |-> FALSE]
    /\ wval = [t \in Threads |-> 0]
    /\ widx = [t \in Threads |-> 0]
    /\ start = [t \in Threads |-> 0]
    /\ ret = [t \in Threads |-> << >>]
    /\ h0 = [t \in Threads |-> 0]
    /\ odd0 = [t \in Threads |-> FALSE]
    /\ out = [t \in Threads |-> "none"]
    /\ ncalls = 0
    /\ stage = [t \in Threads |-> 0]
    /\ NewAllocator(0)

----------------------------------------------------------------------------
\* The test's thread body: write(), `*lock += 1`, drop(lock), one try_read().
\* Stage 0 is a thread outside the test, free to issue any call; a test thread
\* is at stage 1 before its write(), 2 after it, 3 once it has called try_read().
\* Stage 6 is a thread that calls write() and drops the guard, over and over.
Allowed(t, o) ==
    CASE stage[t] = 0 -> ncalls < MaxCalls
      [] stage[t] = 1 -> o = "write"
      [] stage[t] = 2 -> o = "try_read" /\ op[t] = "drop"
      [] stage[t] = 6 -> o = "write" /\ ~guard[t]
      [] OTHER -> FALSE

\* `*guard += 1` is one statement: its thread is inside it from the load to
\* the store of the last word.
InAddAssign(t) == wval[t] # 0 /\ widx[t] < NParts

\* A thread issues a call: its locals are fresh.  Threads are interchangeable,
\* so they are numbered in the order of their first calls.
Issue(t, o) ==
    /\ pc[t] = "idle"
    /\ ~InAddAssign(t)
    /\ IF t = 1 THEN TRUE ELSE op[t - 1] # "none"
    /\ Allowed(t, o)
    /\ ncalls' = IF stage[t] = 0 THEN ncalls + 1 ELSE ncalls
    /\ stage' = [stage EXCEPT ![t] = IF @ \in {0, 6} THEN @ ELSE @ + 1]
    /\ op' = [op EXCEPT ![t] = o]
    /\ ret' = [ret EXCEPT ![t] = << >>]
    /\ h0' = [h0 EXCEPT ![t] = Len(hist)]
    /\ odd0' = [odd0 EXCEPT ![t] = Odd(seq)]
    /\ out' = [out EXCEPT ![t] = "none"]
    /\ UNCHANGED <<ra, shared>>

\* Mutant of LoadSeq: no wait loop, the closure runs whatever the parity.
LoadSeq_NoWait(t, spin, body) ==
    /\ start' = [start EXCEPT ![t] = seq]
    /\ pc' = [pc EXCEPT ![t] = body]

\* Mutant of LoadSeq: the wait loop with its parity test inverted.
LoadSeq_Inverted(t, spin, body) ==
    /\ start' = [start EXCEPT ![t] = seq]
    /\ pc' = [pc EXCEPT ![t] = IF Odd(seq) THEN body ELSE spin]

\* `let mut start = *seq;` and the test of `while start & 1 == 1`.
LoadSeq(t, spin, body) ==
    /\ start' = [start EXCEPT ![t] = seq]
    /\ pc' = [pc EXCEPT ![t] = IF Odd(seq) THEN spin ELSE body]

\* read() is called: the first pass loads `seq`.
StartRead(t) ==
    /\ Issue(t, "read")
    /\ LoadSeq(t, "r_while", "r_f")

\* try_read() is called and loads `seq`.
StartTryRead(t) ==
    /\ Issue(t, "try_read")
    /\ LoadSeq(t, "t_while", "t_f")

\* Debug::fmt is called: `self.try_read(|data| ...)`.
StartFmt(t) ==
    /\ Issue(t, "fmt")
    /\ LoadSeq(t, "t_while", "t_f")

\* write() is called.
StartWrite(t) ==
    /\ Issue(t, "write")
    /\ pc' = [pc EXCEPT ![t] = "w_lock"]
    /\ start' = start

----------------------------------------------------------------------------
\* Mutant of ReadLoad: a later pass that goes to the closure without waiting.
ReadLoad_NoWait(t) ==
    /\ pc[t] = "r_load"
    /\ start' = [start EXCEPT ![t] = seq]
    /\ pc' = [pc EXCEPT ![t] = "r_f"]
    /\ UNCHANGED <<ra, shared, op, ret, h0, odd0, out, ncalls, stage>>

\* read(): a later pass of `loop` starts with `let mut start = *seq;`.
ReadLoad(t) ==
    /\ pc[t] = "r_load"
    /\ LoadSeq(t, "r_while", "r_f")
    /\ UNCHANGED <<ra, shared, op, ret, h0, odd0, out, ncalls, stage>>

\* Mutant of ReadSpin: a loop that spins without reloading `seq`.
ReadSpin_NoReload(t) ==
    /\ pc[t] = "r_while"
    /\ UNCHANGED vars

\* read(): one iteration of `while start & 1 == 1 { start = *seq; spin_loop() }`.
ReadSpin(t) ==
    /\ pc[t] = "r_while"
    /\ LoadSeq(t, "r_while", "r_f")
    /\ UNCHANGED <<ra, shared, op, ret, h0, odd0, out, ncalls, stage>>

\* The closure f(&T): copy the next word of the payload, unsynchronised.
CopyWord(t, body, check) ==
    /\ ret' = [ret EXCEPT ![t] = Append(@, payload[Len(@) + 1])]
    /\ pc' = [pc EXCEPT ![t] = IF Len(ret[t]) + 1 = NParts THEN check ELSE body]

\* Mutant of ReadF: a reader that holds the spinlock while the closure runs.
ReadF_Locking(t) ==
    /\ pc[t] = "r_f"
    /\ lock \in {NoThread, t}
    /\ CopyWord(t, "r_f", "r_check")
    /\ lock' = IF Len(ret[t]) + 1 = NParts THEN NoThread ELSE t
    /\ UNCHANGED <<ra, seq, payload, hist, guard, wval, widx, op, start, h0, odd0, out, ncalls, stage>>

ReadF(t) ==
    /\ pc[t] = "r_f"
    /\ CopyWord(t, "r_f", "r_check")
    /\ UNCHANGED <<ra, shared, op, start, h0, odd0, out, ncalls, stage>>

\* Mutant of Validated: the validation that always passes.
Validated_Always(t) == TRUE

\* `start == *seq`
Validated(t) == start[t] = seq

\* read(): `if start == *seq { return ret; }`, else the next pass of the loop.
ReadCheck(t) ==
    /\ pc[t] = "r_check"
    /\ IF Validated(t)
       THEN /\ pc' = [pc EXCEPT ![t] = "idle"]
            /\ out' = [out EXCEPT ![t] = "Val"]
            /\ start' = [start EXCEPT ![t] = 0]
            /\ ret' = ret
       ELSE /\ pc' = [pc EXCEPT ![t] = "r_load"]
            /\ out' = out
            /\ start' = start
            /\ ret' = [ret EXCEPT ![t] = << >>]
    /\ UNCHANGED <<ra, shared, op, h0, odd0, ncalls, stage>>

----------------------------------------------------------------------------
\* try_read(): one iteration of `while start & 1 == 1 { start = *seq; spin_loop() }`.
TrySpin(t) ==
    /\ pc[t] = "t_while"
    /\ LoadSeq(t, "t_while", "t_f")
    /\ UNCHANGED <<ra, shared, op, ret, h0, odd0, out, ncalls, stage>>

TryF(t) ==
    /\ pc[t] = "t_f"
    /\ CopyWord(t, "t_f", "t_check")
    /\ UNCHANGED <<ra, shared, op, start, h0, odd0, out, ncalls, stage>>

\* try_read(): `if start == *seq { Some(ret) } else { None }`
TryResult(t) == IF Validated(t) THEN "Some" ELSE "None"

\* Debug::fmt: `if result.is_some() { "Real" } else { "Uncertain" }`
FmtResult(r) == IF r = "Some" THEN "Real" ELSE "Uncertain"

\* Mutant of TryCheck: a try_read that starts over when the validation fails.
TryCheck_Retry(t) ==
    /\ pc[t] = "t_check"
    /\ IF Validated(t)
       THEN /\ pc' = [pc EXCEPT ![t] = "idle"]
            /\ out' = [out EXCEPT ![t] = IF op[t] = "fmt" THEN "Real" ELSE "Some"]
            /\ start' = [start EXCEPT ![t] = 0]
            /\ ret' = ret
       ELSE /\ pc' = [pc EXCEPT ![t] = "t_while"]
            /\ out' = out
            /\ start' = start
            /\ ret' = [ret EXCEPT ![t] = << >>]
    /\ UNCHANGED <<ra, shared, op, h0, odd0, ncalls, stage>>

\* The single validation of try_read(); Debug::fmt then writes its verdict.
TryCheck(t) ==
    /\ pc[t] = "t_check"
    /\ pc' = [pc EXCEPT ![t] = "idle"]
    /\ out' = [out EXCEPT ![t] = IF op[t] = "fmt" THEN FmtResult(TryResult(t))
                                                ELSE TryResult(t)]
    /\ start' = [start EXCEPT ![t] = 0]
    /\ UNCHANGED <<ra, shared, op, ret, h0, odd0, ncalls, stage>>

----------------------------------------------------------------------------
\* SpinLock::lock(): blocks until the spinlock is free, then holds it.
SpinLockFree == lock = NoThread

\* Mutant of WriteLock: write() that goes on without taking the spinlock.
WriteLock_NoLock(t) ==
    /\ pc[t] = "w_lock"
    /\ pc' = [pc EXCEPT ![t] = "w_inc"]
    /\ UNCHANGED <<ra, shared, op, start, ret, h0, odd0, out, ncalls, stage>>

\* write(): `let lock = self.lock.lock();`
WriteLock(t) ==
    /\ pc[t] = "w_lock"
    /\ SpinLockFree
    /\ lock' = t
    /\ pc' = [pc EXCEPT ![t] = "w_inc"]
    /\ UNCHANGED <<ra, seq, payload, hist, guard, wval, widx, op, start, ret, h0, odd0, out, ncalls, stage>>

\* Mutant of WriteInc: a write() that hands out the guard without `*seq += 1`.
WriteInc_NoInc(t) ==
    /\ pc[t] = "w_inc"
    /\ guard' = [guard EXCEPT ![t] = TRUE]
    /\ pc' = [pc EXCEPT ![t] = "idle"]
    /\ UNCHANGED <<ra, seq, lock, payload, hist, wval, widx, op, start, ret, h0, odd0, out, ncalls, stage>>

\* Mutant of WriteInc: `*seq += 2`.
WriteInc_Twice(t) ==
    /\ pc[t] = "w_inc"
    /\ seq' = seq + 2
    /\ guard' = [guard EXCEPT ![t] = TRUE]
    /\ pc' = [pc EXCEPT ![t] = "idle"]
    /\ UNCHANGED <<ra, lock, payload, hist, wval, widx, op, start, ret, h0, odd0, out, ncalls, stage>>

\* Mutant of WriteInc: a write() that lets go of the spinlock as it returns,
\* handing out a guard that no longer holds it.
WriteInc_DropsLock(t) ==
    /\ pc[t] = "w_inc"
    /\ seq' = seq + 1
    /\ lock' = NoThread
    /\ guard' = [guard EXCEPT ![t] = TRUE]
    /\ pc' = [pc EXCEPT ![t] = "idle"]
    /\ UNCHANGED <<ra, payload, hist, wval, widx, op, start, ret, h0, odd0, out, ncalls, stage>>

\* write(): `*seq += 1; smp_wmb(); SeqLockGuard { seq, lock }`
WriteInc(t) ==
    /\ pc[t] = "w_inc"
    /\ seq' = (seq + 1) % SeqMod
    /\ guard' = [guard EXCEPT ![t] = TRUE]
    /\ pc' = [pc EXCEPT ![t] = "idle"]
    /\ UNCHANGED <<ra, lock, payload, hist, wval, widx, op, start, ret, h0, odd0, out, ncalls, stage>>

\* SeqLockGuard::deref_mut, used as `*guard += 1`: load the payload, add 1.
DerefLoad(t) ==
    /\ guard[t]
    /\ pc[t] = "idle"
    /\ wval[t] = 0
    /\ wval' = [wval EXCEPT ![t] = payload[1] + 1]
    /\ UNCHANGED <<ra, seq, lock, payload, hist, guard, widx, pc, op, start, ret, h0, odd0, out, ncalls, stage>>

\* `*guard += 1`: store the sum, one word of the payload at a time.
DerefStore(t) ==
    /\ guard[t]
    /\ pc[t] = "idle"
    /\ wval[t] # 0
    /\ widx[t] < NParts
    /\ payload' = [payload EXCEPT ![widx[t] + 1] = wval[t]]
    /\ widx' = [widx EXCEPT ![t] = @ + 1]
    /\ UNCHANGED <<ra, seq, lock, hist, guard, wval, pc, op, start, ret, h0, odd0, out, ncalls, stage>>

\* The guard may be dropped once `*guard += 1` is complete; outside the test
\* program also before it has begun.
Droppable(t) ==
    \/ widx[t] = NParts
    \/ stage[t] \in {0, 6} /\ wval[t] = 0

\* Mutant of DropInc: a drop that forgets `*self.seq += 1`.
DropInc_NoInc(t) ==
    /\ guard[t]
    /\ pc[t] = "idle"
    /\ Droppable(t)
    /\ guard' = [guard EXCEPT ![t] = FALSE]
    /\ wval' = [wval EXCEPT ![t] = 0]
    /\ widx' = [widx EXCEPT ![t] = 0]
    /\ hist' = Append(hist, payload)
    /\ pc' = [pc EXCEPT ![t] = "d_unlock"]
    /\ op' = [op EXCEPT ![t] = "drop"]
    /\ out' = [out EXCEPT ![t] = "none"]
    /\ UNCHANGED <<ra, seq, lock, payload, start, ret, h0, odd0, ncalls, stage>>

\* SeqLockGuard::drop: `smp_wmb(); *self.seq += 1;`
\* The ghost history records the releases of the bounded programs only.
DropInc(t) ==
    /\ guard[t]
    /\ pc[t] = "idle"
    /\ Droppable(t)
    /\ seq' = (seq + 1) % SeqMod
    /\ guard' = [guard EXCEPT ![t] = FALSE]
    /\ wval' = [wval EXCEPT ![t] = 0]
    /\ widx' = [widx EXCEPT ![t] = 0]
    /\ hist' = IF stage[t] = 6 THEN hist ELSE Append(hist, payload)
    /\ pc' = [pc EXCEPT ![t] = "d_unlock"]
    /\ op' = [op EXCEPT ![t] = "drop"]
    /\ out' = [out EXCEPT ![t] = "none"]
    /\ UNCHANGED <<ra, lock, payload, start, ret, h0, odd0, ncalls, stage>>

\* After drop's body the guard's field `lock: SpinLockGuard` is dropped: unlock.
DropUnlock(t) ==
    /\ pc[t] = "d_unlock"
    /\ lock' = NoThread
    /\ pc' = [pc EXCEPT ![t] = "idle"]
    /\ UNCHANGED <<ra, seq, payload, hist, guard, wval, widx, op, start, ret, h0, odd0, out, ncalls, stage>>

----------------------------------------------------------------------------
\* into_inner(self) takes the SeqLock by value: the borrow checker admits the
\* call only when no call on the lock is in progress and no guard is alive.
Owned == \A u \in Threads : pc[u] = "idle" /\ ~guard[u]

\* Mutant of IntoInner: an into_inner that first takes the spinlock.
IntoInner_Locking(t) ==
    /\ Owned
    /\ SpinLockFree
    /\ lock' = t
    /\ op' = [op EXCEPT ![t] = "into_inner"]
    /\ ret' = [ret EXCEPT ![t] = payload]
    /\ out' = [out EXCEPT ![t] = "Inner"]
    /\ pc' = [u \in Threads |-> "gone"]
    /\ UNCHANGED <<ra, seq, payload, hist, guard, wval, widx, start, h0, odd0, ncalls, stage>>

\* `let SeqLock { lock, .. } = self; lock.into_inner()`: the payload is moved
\* out, `seq` and the spinlock word are not looked at, and the SeqLock is gone.
IntoInner(t) ==
    /\ Owned
    /\ op' = [op EXCEPT ![t] = "into_inner"]
    /\ ret' = [ret EXCEPT ![t] = payload]
    /\ out' = [out EXCEPT ![t] = "Inner"]
    /\ pc' = [u \in Threads |-> "gone"]
    /\ UNCHANGED <<ra, shared, start, h0, odd0, ncalls, stage>>

----------------------------------------------------------------------------
ReadStep(t) == ReadLoad(t) \/ ReadSpin(t) \/ ReadF(t) \/ ReadCheck(t)

\* Any number of threads sharing one SeqLock, each issuing any calls.
Next ==
    \/ \E t \in Threads : StartRead(t)
    \/ \E t \in Threads : ReadLoad(t)
    \/ \E t \in Threads : ReadSpin(t)
    \/ \E t \in Threads : ReadF(t)
    \/ \E t \in Threads : ReadCheck(t)
    \/ \E t \in Threads : StartTryRead(t)
    \/ \E t \in Threads : StartFmt(t)
    \/ \E t \in Threads : TrySpin(t)
    \/ \E t \in Threads : TryF(t)
    \/ \E t \in Threads : TryCheck(t)
    \/ \E t \in Threads : StartWrite(t)
    \/ \E t \in Threads : WriteLock(t)
    \/ \E t \in Threads : WriteInc(t)
    \/ \E t \in Threads : DerefLoad(t)
    \/ \E t \in Threads : DerefStore(t)
    \/ \E t \in Threads : DropInc(t)
    \/ \E t \in Threads : DropUnlock(t)
    \/ \E t \in Threads : IntoInner(t)

Spec == Init /\ [][Next]_vars

\* Threads that call only read() and write().
NextRW ==
    \/ \E t \in Threads : StartRead(t)
    \/ \E t \in Threads : ReadLoad(t)
    \/ \E t \in Threads : ReadSpin(t)
    \/ \E t \in Threads : ReadF(t)
    \/ \E t \in Threads : ReadCheck(t)
    \/ \E t \in Threads : StartWrite(t)
    \/ \E t \in Threads : WriteLock(t)
    \/ \E t \in Threads : WriteInc(t)
    \/ \E t \in Threads : DerefLoad(t)
    \/ \E t \in Threads : DerefStore(t)
    \/ \E t \in Threads : DropInc(t)
    \/ \E t \in Threads : DropUnlock(t)

\* Fair scheduling: a thread inside read() keeps running.
FairSpec == Init /\ [][NextRW]_vars /\ \A t \in Threads : WF_vars(ReadStep(t))

----------------------------------------------------------------------------
\* Persistent writer contention: thread 1 calls write() and drops the guard
\* for ever, the other threads each call read().
Writer == 1
Readers == Threads \ {Writer}

InitStarve ==
    /\ seq = 0
    /\ lock = NoThread
    /\ payload = [i \in Parts |-> 0]
    /\ hist = << [i \in Parts |-> 0] >>
    /\ pc = [t \in Threads |-> "idle"]
    /\ op = [t \in Threads |-> "none"]
    /\ guard = [t \in Threads |-> FALSE]
    /\ wval = [t \in Threads |-> 0]
    /\ widx = [t \in Threads |-> 0]
    /\ start = [t \in Threads |-> 0]
    /\ ret = [t \in Threads |-> << >>]
    /\ h0 = [t \in Threads |-> 0]
    /\ odd0 = [t \in Threads |-> FALSE]
    /\ out = [t \in Threads |-> "none"]
    /\ ncalls = 0
    /\ stage = [t \in Threads |-> IF t = Writer THEN 6 ELSE 0]
    /\ NewAllocator(0)

\* A reader has run its closure in a pass that began at the present `seq`.
FreshPass(t) == pc[t] = "r_check" /\ start[t] = seq

\* The scheduler runs the writer's `*seq += 1` of write() when every reader
\* is between its closure and its validation ...
StarveWriteInc(t) ==
    /\ \A r \in Readers : FreshPass(r)
    /\ WriteInc(t)

\* ... and a reader's validation after the writer has moved `seq`.
StarveReadCheck(t) ==
    /\ start[t] # seq
    /\ ReadCheck(t)

WriterStep(t) ==
    StartWrite(t) \/ WriteLock(t) \/ StarveWriteInc(t) \/ DropInc(t) \/ DropUnlock(t)

ReaderStep(t) ==
    StartRead(t) \/ ReadLoad(t) \/ ReadSpin(t) \/ ReadF(t) \/ StarveReadCheck(t)

NextStarve ==
    \/ \E t \in {Writer} : StartWrite(t)
    \/ \E t \in {Writer} : WriteLock(t)
    \/ \E t \in {Writer} : StarveWriteInc(t)
    \/ \E t \in {Writer} : DropInc(t)
    \/ \E t \in {Writer} : DropUnlock(t)
    \/ \E t \in Readers : StartRead(t)
    \/ \E t \in Readers : ReadLoad(t)
    \/ \E t \in Readers : ReadSpin(t)
    \/ \E t \in Readers : ReadF(t)
    \/ \E t \in Readers : StarveReadCheck(t)

\* Every thread keeps running: the schedule is fair to the writer and to
\* each reader.
StarveSpec ==
    /\ InitStarve /\ [][NextStarve]_vars
    /\ WF_vars(WriterStep(Writer))
    /\ \A t \in Readers : WF_vars(ReaderStep(t))

----------------------------------------------------------------------------
\* src/tests/seqlock.rs: N threads, each running the thread body once.
InitTest ==
    /\ seq = 0
    /\ lock = NoThread
    /\ payload = [i \in Parts |-> 0]
    /\ hist = << [i \in Parts |-> 0] >>
    /\ pc = [t \in Threads |-> "idle"]
    /\ op = [t \in Threads |-> "none"]
    /\ guard = [t \in Threads |-> FALSE]
    /\ wval = [t \in Threads |-> 0]
    /\ widx = [t \in Threads |-> 0]
    /\ start = [t \in Threads |-> 0]
    /\ ret = [t \in Threads |-> << >>]
    /\ h0 = [t \in Threads |-> 0]
    /\ odd0 = [t \in Threads |-> FALSE]
    /\ out = [t \in Threads |-> "none"]
    /\ ncalls = 0
    /\ stage = [t \in Threads |-> 1]
    /\ NewAllocator(0)

\* `if read == N { tx.send(()).unwrap(); }`: stage 4 has sent, stage 5 has not.
TestSend(t) ==
    /\ stage[t] = 3
    /\ pc[t] = "idle"
    /\ stage' = [stage EXCEPT ![t] = IF ret[t] = [i \in Parts |-> NThreads] THEN 4 ELSE 5]
    /\ UNCHANGED <<ra, shared, pc, op, start, ret, h0, odd0, out, ncalls>>

NextTest ==
    \/ \E t \in Threads : StartWrite(t)
    \/ \E t \in Threads : WriteLock(t)
    \/ \E t \in Threads : WriteInc(t)
    \/ \E t \in Threads : DerefLoad(t)
    \/ \E t \in Threads : DerefStore(t)
    \/ \E t \in Threads : DropInc(t)
    \/ \E t \in Threads : DropUnlock(t)
    \/ \E t \in Threads : StartTryRead(t)
    \/ \E t \in Threads : TrySpin(t)
    \/ \E t \in Threads : TryF(t)
    \/ \E t \in Threads : TryCheck(t)
    \/ \E t \in Threads : TestSend(t)

SpecTest == InitTest /\ [][NextTest]_vars

\* The test under its scheduler: the spawned threads run to the end of their
\* bodies, i.e. while some thread has a step to take, a step is taken.
FairTest == SpecTest /\ WF_vars(NextTest)

----------------------------------------------------------------------------
\* RecycleAllocator (src/src/id.rs), driven by any sequence of alloc and
\* dealloc calls; the SeqLock stands unused beside it.
MaxCurrent == 4
MaxStart == 1
Ids == 0 .. (MaxCurrent - 1)

InitAlloc ==
    /\ seq = 0
    /\ lock = NoThread
    /\ payload = [i \in Parts |-> 0]
    /\ hist = << [i \in Parts |-> 0] >>
    /\ pc = [t \in Threads |-> "idle"]
    /\ op = [t \in Threads |-> "none"]
    /\ guard = [t \in Threads |-> FALSE]
    /\ wval = [t \in Threads |-> 0]
    /\ widx = [t \in Threads |-> 0]
    /\ start = [t \in Threads |-> 0]
    /\ ret = [t \in Threads |-> << >>]
    /\ h0 = [t \in Threads |-> 0]
    /\ odd0 = [t \in Threads |-> FALSE]
    /\ out = [t \in Threads |-> "none"]
    /\ ncalls = 0
    /\ stage = [t \in Threads |-> 0]
    /\ \E c \in 0 .. MaxStart : NewAllocator(c)

\* Vec::pop: the last element, and the rest.
Top(v) == v[Len(v)]
Popped(v) == SubSeq(v, 1, Len(v) - 1)

\* alloc() has returned id.
Returned(id) ==
    /\ got' = << id >>
    /\ unique' = (unique /\ id \notin allocated)
    /\ allocated' = allocated \cup {id}

\* Mutant of Alloc: `self.recycled.last()` in place of `self.recycled.pop()`.
Alloc_NoPop ==
    /\ IF recycled # << >>
       THEN /\ recycled' = recycled
            /\ current' = current
            /\ Returned(Top(recycled))
       ELSE /\ current < MaxCurrent
            /\ current' = current + 1
            /\ recycled' = recycled
            /\ Returned(current' - 1)
    /\ UNCHANGED <<misused, sl>>

\* `if let Some(id) = self.recycled.pop() { id } else { self.current += 1;
\* assert_ne!(self.current, usize::MAX); self.current - 1 }`, with MaxCurrent
\* ids at most ever issued.
Alloc ==
    /\ IF recycled # << >>
       THEN /\ recycled' = Popped(recycled)
            /\ current' = current
            /\ Returned(Top(recycled))
       ELSE /\ current < MaxCurrent
            /\ current' = current + 1
            /\ recycled' = recycled
            /\ Returned(current' - 1)
    /\ UNCHANGED <<misused, sl>>

\* `self.recycled.push(id)`, for any id the caller cares to pass.
Dealloc(id) ==
    /\ Len(recycled) < MaxCurrent
    /\ recycled' = Append(recycled, id)
    /\ allocated' = allocated \ {id}
    /\ misused' = (misused \/ id \notin allocated)
    /\ got' = << >>
    /\ UNCHANGED <<current, unique, sl>>

NextAlloc ==
    \/ Alloc
    \/ \E id \in Ids : Dealloc(id)

SpecAlloc == InitAlloc /\ [][NextAlloc]_vars

----------------------------------------------------------------------------
\* Claims about the SeqLock.

Holders == {t \in Threads : guard[t]}

\* C1.  Read consistency: the value read() returns, and the value try_read()
\* returns as Some, is the whole payload as it stood at one point between the
\* call and its return: the payload at the call when no write was in progress,
\* or the payload some guard release left during the call.  It is never a mix
\* of two writes nor a half-written payload.
Current(t) == { hist[i] : i \in (h0[t] + IF odd0[t] THEN 1 ELSE 0) .. Len(hist) }

C1_ReadConsistency ==
    \A t \in Threads :
        out[t] \in {"Val", "Some"} => ret[t] \in Current(t)

\* A read that returned the payload of a write completed during the call.
C1_Witness ==
    \E t \in Threads :
        /\ out[t] \in {"Val", "Some"}
        /\ h0[t] < Len(hist)
        /\ ret[t] # hist[h0[t]]

\* C2.  Mutual exclusion of writers: at most one thread holds a SeqLockGuard,
\* and while a guard is live no other thread in write() can take the spinlock
\* or increment the sequence counter.
C2_MutualExclusion ==
    \A t \in Threads :
        guard[t] =>
            \A u \in Threads \ {t} :
                /\ ~guard[u]
                /\ pc[u] # "w_inc"
                /\ ~ENABLED WriteLock(u)

\* One thread holds the guard while another is inside write(), waiting.
C2_Witness ==
    \E t, u \in Threads : t # u /\ guard[t] /\ pc[u] = "w_lock"

\* C3.  Parity: the sequence counter is even whenever no thread holds a guard
\* and odd whenever a thread holds one.
C3_Parity ==
    /\ Holders = {} => ~Odd(seq)
    /\ Holders # {} => Odd(seq)

\* The guard of a second write is held.
C3_Witness == Holders # {} /\ seq = 3

\* C4.  Monotonicity: no step lowers the sequence counter; a step that changes
\* it raises it by exactly 1 and is the increment of write() or the release of
\* a guard.
C4_Monotonic ==
    [][/\ seq' >= seq
       /\ seq' # seq =>
            /\ seq' = seq + 1
            /\ \E t \in Threads :
                  \/ pc[t] = "w_inc" /\ ~guard[t] /\ guard'[t]
                  \/ guard[t] /\ ~guard'[t] /\ pc'[t] = "d_unlock"]_vars

\* Two writes have been acquired and released.
C4_Witness == seq = 4 /\ Holders = {}

\* C5.  No lost update, and try_read at rest: in the test program, once all N
\* guards have been released the payload is N, and a try_read issued after
\* that returns Some(N).
AllN == [i \in Parts |-> NThreads]

C5_NoLostUpdate ==
    /\ Len(hist) = NThreads + 1 => payload = AllN
    /\ \A t \in Threads :
          (op[t] = "try_read" /\ out[t] # "none" /\ h0[t] = NThreads + 1)
              => (out[t] = "Some" /\ ret[t] = AllN)

\* A try_read issued after the last release has returned Some(N).
C5_Witness ==
    \E t \in Threads :
        op[t] = "try_read" /\ h0[t] = NThreads + 1 /\ out[t] = "Some" /\ ret[t] = AllN

\* C6.  (as claimed) A try_read issued while another thread holds the guard does not
\* wait for the sequence counter to become even, and returns None.
C6_TryReadNoWait ==
    \A t \in Threads :
        (op[t] = "try_read" /\ odd0[t] /\ ~guard[t]) =>
            /\ pc[t] # "t_while"
            /\ out[t] \in {"none", "None"}

\* C7.  (as claimed) Debug formatting invoked while a guard is held, by another
\* thread or by the formatting thread, completes without waiting for the
\* release and emits the "Uncertain" placeholder.
C7_FmtNeverWaits ==
    \A t \in Threads :
        (op[t] = "fmt" /\ odd0[t]) =>
            /\ pc[t] # "t_while"
            /\ out[t] \in {"none", "Uncertain"}

\* C8.  read() terminates when writers stop: under fair scheduling of the
\* reader, in every behaviour in which eventually no guard is held any more
\* (every write is finished and its guard released), every read() call
\* eventually returns.
C8_ReadTerminates ==
    (<>[](Holders = {})) =>
        \A t \in Threads : (op[t] = "read" /\ out[t] = "none") ~> (out[t] = "Val")

\* A read() issued during a write has waited and returned.
C8_Witness ==
    \E t \in Threads : op[t] = "read" /\ odd0[t] /\ out[t] = "Val"

\* C9.  Readers never modify shared state and never delay writers: a step of
\* read(), try_read() or Debug::fmt leaves the sequence counter, the payload
\* and the spinlock unchanged, and a thread waiting in write() can take the
\* spinlock exactly when the spinlock is free, wherever the readers are.
ReaderOps == {"read", "try_read", "fmt"}

Moved(t) ==
    <<pc[t], op[t], start[t], ret[t], out[t]>>' # <<pc[t], op[t], start[t], ret[t], out[t]>>

C9_ReadersFrame ==
    /\ [][\A t \in Threads :
            (Moved(t) /\ op'[t] \in ReaderOps) => UNCHANGED <<seq, payload, lock, guard>>]_vars
    /\ [](\A t \in Threads :
            pc[t] = "w_lock" => (ENABLED WriteLock(t) <=> lock = NoThread))

\* A writer takes the spinlock while another thread is in the middle of its
\* closure: the next step of the state below.
C9_Witness ==
    \E t, u \in Threads :
        /\ pc[t] = "w_lock" /\ ENABLED WriteLock(t)
        /\ pc[u] \in {"r_f", "t_f"} /\ Len(ret[u]) > 0

\* C10.  The sequence counter counts writes: it equals twice the number of
\* guard releases, plus 1 while a guard is held; and after exactly one
\* completed write, with the counter at 2, a read() issued after that write
\* has returned the payload the write left.
Completed == Len(hist) - 1

C10_SeqCountsWrites ==
    /\ seq = 2 * Completed + (IF Holders # {} THEN 1 ELSE 0)
    /\ \A t \in Threads :
          (seq = 2 /\ op[t] = "read" /\ out[t] = "Val" /\ h0[t] = 2) => ret[t] = hist[2]

\* Scenario A: one write, released, then a read() that returned its payload.
C10_Witness ==
    /\ seq = 2
    /\ \E t \in Threads :
          op[t] = "read" /\ out[t] = "Val" /\ h0[t] = 2 /\ ret[t] = hist[2] /\ ret[t] # hist[1]

\* C11.  Round trip: into_inner returns the payload the last completed write
\* left, or the initial payload when there was no write, whichever threads
\* wrote and whatever the sequence counter has reached; and it does not take
\* the spinlock.
C11_IntoInnerRoundTrip ==
    \A t \in Threads :
        out[t] = "Inner" =>
            /\ ret[t] = hist[Len(hist)]
            /\ Len(hist) = 1 => ret[t] = [i \in Parts |-> 0]
            /\ lock = NoThread

\* into_inner after a write by each of two threads: it returned the payload of
\* the second write, with the counter at 4.
C11_Witness ==
    \E t, u \in Threads :
        /\ t # u /\ out[t] = "Inner" /\ op[u] = "drop"
        /\ seq = 4
        /\ ret[t] = hist[3] /\ ret[t] # hist[2] /\ ret[t] # hist[1]

\* C12.  The test always completes: in every interleaving of the N thread
\* bodies (write, increment, release, one try_read into a local), some thread
\* finds its local equal to N and sends, so the main thread's recv returns;
\* and once every thread is through, at least one has sent.
C12_TestCompletes ==
    /\ <>(\E t \in Threads : stage[t] = 4)
    /\ []((\A t \in Threads : stage[t] >= 4) => \E t \in Threads : stage[t] = 4)

\* The test is over: one thread has sent, another found a smaller value.
C12_Witness ==
    \E t, u \in Threads : stage[t] = 4 /\ stage[u] = 5 /\ ret[u] # AllN

\* C13.  Sequence updates happen only under the spinlock, after the lock is
\* taken and before it is released: every step that changes the sequence
\* counter is a step of the thread that holds the spinlock before and after
\* it; whenever the spinlock is free the counter is even; and while the
\* counter is odd no thread in write() can take the spinlock.
C13_SeqUnderLock ==
    /\ [][seq' # seq =>
            \E t \in Threads : lock = t /\ lock' = t /\ pc'[t] # pc[t]]_vars
    /\ [](lock = NoThread => ~Odd(seq))
    /\ [](Odd(seq) => \A t \in Threads : ~ENABLED WriteLock(t))

\* A releasing writer has made the counter even and still holds the spinlock,
\* and the next writer is waiting for it.
C13_Witness ==
    \E t, u \in Threads :
        /\ t # u /\ pc[t] = "d_unlock" /\ lock = t /\ seq = 2
        /\ pc[u] = "w_lock" /\ ~ENABLED WriteLock(u)

\* C14.  The payload is written only inside an odd window: every step that
\* changes the payload is a step of the thread holding the guard, taken in a
\* state where the sequence counter is odd; a step taken while the counter is
\* even leaves the payload unchanged.
C14_WriteInOddWindow ==
    [][/\ payload' # payload =>
            /\ Odd(seq)
            /\ \E t \in Threads : guard[t] /\ guard'[t] /\ widx'[t] = widx[t] + 1
       /\ ~Odd(seq) => payload' = payload]_vars

\* A guard's owner is halfway through storing a new payload.
C14_Witness ==
    \E t \in Threads :
        guard[t] /\ Odd(seq) /\ widx[t] = 1 /\ payload[1] # payload[NParts]

\* C15.  try_read validates exactly once and reports contention as a value:
\* inside a call the closure's copy only grows, a word at a time, so the
\* closure runs once; the step after the closure compares the counter with
\* `start` and ends the call there, returning Some exactly when `start` is
\* even and equal to the counter, and None in every other case.
C15_TryReadOnce ==
    [][\A t \in Threads :
          (op[t] = "try_read" /\ pc[t] # "idle" /\ pc'[t] # pc[t]) =>
              /\ Len(ret'[t]) \in {Len(ret[t]), Len(ret[t]) + 1}
              /\ pc[t] = "t_f" => (~Odd(start[t]) /\ start'[t] = start[t])
              /\ pc[t] = "t_check" =>
                    /\ pc'[t] = "idle"
                    /\ ret'[t] = ret[t] /\ Len(ret[t]) = NParts
                    /\ out'[t] = IF ~Odd(start[t]) /\ start[t] = seq
                                 THEN "Some" ELSE "None"]_vars

\* A try_read whose closure ran across a writer's increment returned None.
C15_Witness ==
    \E t \in Threads :
        op[t] = "try_read" /\ pc[t] = "idle" /\ out[t] = "None" /\ Len(ret[t]) = NParts

\* C16.  Reader starvation is possible: with a writer that keeps writing for
\* ever there are fairly scheduled executions, those in which each write
\* begins between a reader's closure and its validation, where the writer
\* completes writes again and again, and every read() call fails its
\* validation again and again and never returns.
C16_ReaderStarves ==
    /\ [](\A t \in Readers : out[t] # "Val")
    /\ \A t \in Readers : []<>(op[t] = "read" /\ pc[t] = "r_load")
    /\ []<>(Holders # {}) /\ []<>(lock = NoThread)

\* The third write has just begun and a read() has failed its third pass.
C16_Witness ==
    \E t \in Readers : op[t] = "read" /\ pc[t] = "r_load" /\ seq = 5

\* C17.  Readers never wait on or invalidate one another: as long as no
\* write() has been called, whatever read() and try_read() calls run side by
\* side, none of them is in its wait loop or in a second pass, every
\* validation reached is one that passes, every read() that has returned did
\* so from its first pass and every try_read() that has returned gave Some.
\* And at any time, a reader is in its wait loop only on an odd `start`.
NoWrite ==
    /\ seq = 0 /\ lock = NoThread /\ Len(hist) = 1
    /\ \A t \in Threads : pc[t] \notin {"w_lock", "w_inc"}

C17_ReadersIndependent ==
    /\ NoWrite =>
          \A t \in Threads :
              op[t] \in {"read", "try_read"} =>
                  /\ pc[t] \notin {"r_while", "r_load", "t_while"}
                  /\ pc[t] \in {"r_check", "t_check"} => Validated(t)
                  /\ out[t] \in {"none", IF op[t] = "read" THEN "Val" ELSE "Some"}
    /\ \A t \in Threads : pc[t] \in {"r_while", "t_while"} => Odd(start[t])

\* No write so far; a read() and a try_read() have run their closures side
\* by side and both are at their validation.
C17_Witness ==
    \E t, u \in Threads :
        /\ NoWrite
        /\ op[t] = "read" /\ pc[t] = "r_check"
        /\ op[u] = "try_read" /\ pc[u] = "t_check"

\* C18.  read() waits out a write in progress before touching the payload and
\* returns only a validated pass: the closure runs only in a pass whose
\* `start` is even; a load of an odd counter leads to the wait loop, not to
\* the closure; the step after the closure returns the closure's result
\* exactly when the counter equals that even `start`, and otherwise discards
\* the result and begins a new pass, which loads the counter afresh.
C18_ReadValidatedPass ==
    /\ [](\A t \in Threads : pc[t] = "r_f" => ~Odd(start[t]))
    /\ [][\A t \in Threads :
            (op[t] = "read" /\ pc'[t] # pc[t]) =>
                /\ pc[t] \in {"r_load", "r_while"} =>
                      /\ start'[t] = seq
                      /\ pc'[t] = IF Odd(seq) THEN "r_while" ELSE "r_f"
                      /\ ret'[t] = << >>
                /\ pc[t] = "r_check" =>
                      IF start[t] = seq /\ ~Odd(start[t])
                      THEN pc'[t] = "idle" /\ out'[t] = "Val" /\ ret'[t] = ret[t]
                      ELSE pc'[t] = "r_load" /\ out'[t] = "none" /\ ret'[t] = << >>]_vars

\* A read() that began on an even counter has thrown a pass away and is now
\* waiting for the write that spoiled it.
C18_Witness ==
    \E t \in Threads :
        op[t] = "read" /\ ~odd0[t] /\ pc[t] = "r_while" /\ ret[t] = << >> /\ Odd(start[t])

\* C19.  Self-deadlock: a thread that calls read() or try_read() while it
\* holds the SeqLockGuard itself never returns from the call: the call is in
\* its wait loop on an odd counter, has not run its closure and has no
\* result, and the guard, which only that thread can release, cannot be
\* released while the thread is inside the call.
C19_SelfDeadlock ==
    \A t \in Threads :
        (guard[t] /\ op[t] \in {"read", "try_read"}) =>
            /\ pc[t] = IF op[t] = "read" THEN "r_while" ELSE "t_while"
            /\ Odd(seq) /\ start[t] = seq
            /\ ret[t] = << >> /\ out[t] = "none"
            /\ ~ENABLED DropInc(t)

\* The guard's owner is spinning in its own try_read().
C19_Witness ==
    \E t \in Threads : guard[t] /\ op[t] = "try_read" /\ pc[t] = "t_while"

\* C20.  RecycleAllocator uniqueness: as long as dealloc has only been called
\* with ids that were allocated at the time, no alloc has returned an id that
\* was still allocated, the free list holds no id twice and none that is
\* allocated, and every id in use lies below the counter.  An alloc returns
\* the id deallocated last among those on the free list, leaving the counter
\* unchanged, and on an empty free list returns the counter and advances it
\* by one; a dealloc puts its id on top of the free list.
C20_AllocUnique ==
    /\ [](~misused =>
            /\ unique
            /\ \A i, j \in 1 .. Len(recycled) :
                  i # j => recycled[i] # recycled[j]
            /\ \A i \in 1 .. Len(recycled) :
                  recycled[i] \notin allocated /\ recycled[i] < current
            /\ \A id \in allocated : id < current)
    /\ [][/\ got' # << >> /\ <<current, recycled, allocated>>' # <<current, recycled, allocated>> =>
               IF recycled # << >>
               THEN /\ got' = << recycled[Len(recycled)] >>
                    /\ Len(recycled') = Len(recycled) - 1
                    /\ \A i \in 1 .. Len(recycled') : recycled'[i] = recycled[i]
                    /\ current' = current
               ELSE /\ got' = << current >>
                    /\ current' = current + 1
                    /\ recycled' = recycled
          /\ got' = << >> =>
               /\ Len(recycled') = Len(recycled) + 1
               /\ \A i \in 1 .. Len(recycled) : recycled'[i] = recycled[i]
               /\ current' = current]_vars

\* Two ids were given back and the one given back last has been reused; the
\* other is still on the free list, and the counter has not moved.
C20_Witness ==
    /\ ~misused /\ unique
    /\ got # << >> /\ recycled # << >>
    /\ got[1] > recycled[1] /\ got[1] + 1 < current

====
